---- MODULE Spec2Model ----
(***************************************************************************)
(* eigenangi: layered AWS settings resolution (config.py, utils.py) and    *)
(* the EC2 instance-type catalog client (ec2/ec2.py).                      *)
(*                                                                         *)
(* Strings are sequences of one-character strings, so that str.strip,      *)
(* str.split and the "." test of the source are computed, not assumed.     *)
(* Python's None is the value None below.                                  *)
(***************************************************************************)
EXTENDS Integers, Sequences, FiniteSets, TLC

VARIABLES
    env,          \* os.environ: name -> value, for the names that are set
    dotenv,       \* the local .env file: name -> value (empty when the file is absent)
    toml,         \* [aws] table of ~/.config/eigenangi/config.toml, <<raw key, value>> in file order
    tomlOk,       \* FALSE when the TOML file is malformed (tomllib.load raises)
    haveDotenv,   \* TRUE when python-dotenv is importable (config.py:11-23)
    env0,         \* history: os.environ before the first call
    cfg,          \* what the last resolved_aws_settings() call returned, or raised
    calls,        \* number of resolved_aws_settings() calls made
    edited,       \* TRUE once the .env file was changed after the start
    client,       \* the EC2Client under construction: [state, region, error]
    q,            \* the list_machine_types call in progress
    raw,          \* normalisation: the raw provider record
    info          \* normalisation: <<InstanceTypeInfo.from_aws(raw)>>, or <<>> before the call

cfgVars == <<env, dotenv, toml, tomlOk, haveDotenv, env0, cfg, calls, edited>>
vars == <<env, dotenv, toml, tomlOk, haveDotenv, env0, cfg, calls, edited, client, q, raw, info>>

None == <<"<None>">>

-----------------------------------------------------------------------------
(* Bounds *)

MaxEntries == 2     \* entries present at the start, over environment, .env and TOML together
MaxCalls == 2       \* resolved_aws_settings() calls in one run
MaxPages == 2       \* pages the provider returns to one query
MaxRecords == 3     \* records the provider returns to one query, over all pages

-----------------------------------------------------------------------------
(* config.py, utils.py *)

Keys == {"AWS_ACCESS_KEY_ID", "AWS_SECRET_ACCESS_KEY", "AWS_SESSION_TOKEN", "AWS_DEFAULT_REGION"}
EnvNames == Keys \cup {"AWS_REGION"}
RawKeys == Keys \cup {"aws_access_key_id"}

EnvVals == {<<>>, <<" ">>, <<"e">>, <<"e", " ">>}
DotVals == {<<>>, <<"d">>}
TomlVals == {<<>>, <<"t">>}

\* str.upper on the TOML keys of the model
Upper(k) == IF k = "aws_access_key_id" THEN "AWS_ACCESS_KEY_ID" ELSE k

IsSpace(c) == c = " "

RECURSIVE LStrip(_)
LStrip(s) == IF s # <<>> /\ IsSpace(Head(s)) THEN LStrip(Tail(s)) ELSE s

RECURSIVE RStrip(_)
RStrip(s) == IF s # <<>> /\ IsSpace(s[Len(s)]) THEN RStrip(SubSeq(s, 1, Len(s) - 1)) ELSE s

\* str.strip
Strip(s) == RStrip(LStrip(s))

\* os.getenv(name)
OsGetenv(e, name) == IF name \in DOMAIN e THEN e[name] ELSE None

\* getenv_str with the file value preferred over the environment
getenv_str_FileFirst(e, name, default) ==
    LET val == OsGetenv(e, name)
    IN IF default # None THEN default
       ELSE IF val # None /\ Strip(val) # <<>> THEN val ELSE default

\* utils.getenv_str
getenv_str(e, name, default) ==
    LET val == OsGetenv(e, name)
    IN IF val # None /\ Strip(val) # <<>> THEN val ELSE default

\* load_dotenv(override=True): the file's value replaces the variable's
load_env_files_Override(e, d, installed) ==
    IF installed
    THEN [k \in DOMAIN e \cup DOMAIN d |-> IF k \in DOMAIN d THEN d[k] ELSE e[k]]
    ELSE e

\* load_dotenv(override=False): a name already in os.environ is left alone
\* (whatever its value); the fallback stub of config.py:15-23 does nothing.
load_env_files(e, d, installed) ==
    IF installed
    THEN [k \in DOMAIN e \cup DOMAIN d |-> IF k \in DOMAIN e THEN e[k] ELSE d[k]]
    ELSE e

\* {k.upper(): str(v) for k, v in section.items()}: a later key wins
RECURSIVE load_toml_config(_)
load_toml_config(t) ==
    IF t = <<>> THEN <<>>
    ELSE LET rest == load_toml_config(SubSeq(t, 1, Len(t) - 1))
             last == t[Len(t)]
             k == Upper(last[1])
         IN [x \in DOMAIN rest \cup {k} |-> IF x = k THEN last[2] ELSE rest[x]]

\* dict.get(key)
DictGet(d, key) == IF key \in DOMAIN d THEN d[key] ELSE None

\* the dict resolved_aws_settings returns, from os.environ after load_env_files
Settings(e, toml_cfg) ==
    [k \in Keys |->
        IF k = "AWS_DEFAULT_REGION"
        THEN getenv_str(e, "AWS_DEFAULT_REGION",
                 getenv_str(e, "AWS_REGION", DictGet(toml_cfg, "AWS_DEFAULT_REGION")))
        ELSE getenv_str(e, k, DictGet(toml_cfg, k))]

\* resolved_aws_settings(): the new os.environ and the outcome of the call
ResolvedEnv == load_env_files(env, dotenv, haveDotenv)

ResolvedOutcome ==
    IF tomlOk
    THEN [raised |-> "", settings |-> Settings(ResolvedEnv, load_toml_config(toml))]
    ELSE [raised |-> "TOMLDecodeError", settings |-> [k \in Keys |-> None]]

NoCall == [raised |-> "not called", settings |-> [k \in Keys |-> None]]

\* partial functions over names with exactly n entries
PartialOf(names, vals, n) ==
    {f \in UNION {[S -> vals] : S \in SUBSET names} : Cardinality(DOMAIN f) = n}

\* TOML tables with exactly n entries, no raw key twice
TomlOf(n) ==
    {t \in [1..n -> RawKeys \X TomlVals] : \A i, j \in 1..n : i # j => t[i][1] # t[j][1]}

Empty == [x \in {} |-> None]

InitConfig ==
    \E ne \in 0..MaxEntries :
      \E nd \in 0..(MaxEntries - ne) :
        \E nt \in 0..(MaxEntries - ne - nd) :
          /\ env \in PartialOf(EnvNames, EnvVals, ne)
          /\ dotenv \in PartialOf(EnvNames, DotVals, nd)
          /\ toml \in TomlOf(nt)
    /\ tomlOk \in BOOLEAN
    /\ haveDotenv \in BOOLEAN
    /\ env0 = env
    /\ cfg = NoCall
    /\ calls = 0
    /\ edited = FALSE

\* a caller runs resolved_aws_settings()
Resolve ==
    /\ calls < MaxCalls
    /\ env' = ResolvedEnv
    /\ cfg' = ResolvedOutcome
    /\ calls' = calls + 1
    /\ UNCHANGED <<dotenv, toml, tomlOk, haveDotenv, env0, edited, client, q, raw, info>>

\* between two calls somebody rewrites one line of the .env file
WriteDotenv ==
    /\ calls >= 1 /\ calls < MaxCalls /\ ~edited
    /\ \E k \in EnvNames, v \in DotVals :
         /\ DictGet(dotenv, k) # v
         /\ dotenv' = [x \in DOMAIN dotenv \cup {k} |-> IF x = k THEN v ELSE dotenv[x]]
    /\ edited' = TRUE
    /\ UNCHANGED <<env, toml, tomlOk, haveDotenv, env0, cfg, calls, client, q, raw, info>>

\* between two calls somebody removes the .env file
RemoveDotenv ==
    /\ calls >= 1 /\ calls < MaxCalls /\ ~edited
    /\ dotenv # Empty
    /\ dotenv' = Empty
    /\ edited' = TRUE
    /\ UNCHANGED <<env, toml, tomlOk, haveDotenv, env0, cfg, calls, client, q, raw, info>>

-----------------------------------------------------------------------------
(* ec2/ec2.py: EC2Client.__init__ *)

\* Python truthiness of an Optional[str]
Truthy(s) == s # None /\ s # <<>>

\* x or None
OrNone(s) == IF Truthy(s) THEN s ELSE None

RegionArgs == {None, <<>>, <<"r">>}

\* what the provider SDK contributes to one construction: whether
\* boto3.session.Session(...) throws, the region its own default chain finds,
\* and whether its default credential chain finds credentials
SdkCases == [throws : BOOLEAN, region : {None, <<"s">>}, creds : BOOLEAN]

NoSdk == [throws |-> FALSE, region |-> None, creds |-> FALSE]

Idle == [state |-> "none", error |-> "", region_name |-> None, sdk |-> NoSdk,
         region |-> None, access_key |-> None, secret_key |-> None, token |-> None]

Failed(region_name, sdk, error) ==
    [Idle EXCEPT !.state = "raised", !.error = error,
                 !.region_name = region_name, !.sdk = sdk]

\* EC2Client.__init__ without the check of session.region_name
EC2Client_init_NoRegionCheck(region_name, settings, sdk) ==
    LET region == IF Truthy(region_name) THEN region_name
                  ELSE settings["AWS_DEFAULT_REGION"]
        session_region == IF Truthy(region) THEN region ELSE sdk.region
    IN IF sdk.throws THEN Failed(region_name, sdk, "CredentialsNotFound")
       ELSE [state |-> "ready", error |-> "", region_name |-> region_name, sdk |-> sdk,
             region |-> session_region,
             access_key |-> OrNone(settings["AWS_ACCESS_KEY_ID"]),
             secret_key |-> OrNone(settings["AWS_SECRET_ACCESS_KEY"]),
             token |-> OrNone(settings["AWS_SESSION_TOKEN"])]

\* EC2Client.__init__ after resolved_aws_settings() returned settings
EC2Client_init(region_name, settings, sdk) ==
    LET region == IF Truthy(region_name) THEN region_name
                  ELSE settings["AWS_DEFAULT_REGION"]
        session_region == IF Truthy(region) THEN region ELSE sdk.region
    IN IF sdk.throws THEN Failed(region_name, sdk, "CredentialsNotFound")
       ELSE IF ~Truthy(session_region)
       THEN Failed(region_name, sdk, "CredentialsNotFound")
       ELSE [state |-> "ready", error |-> "", region_name |-> region_name, sdk |-> sdk,
             region |-> session_region,
             access_key |-> OrNone(settings["AWS_ACCESS_KEY_ID"]),
             secret_key |-> OrNone(settings["AWS_SECRET_ACCESS_KEY"]),
             token |-> OrNone(settings["AWS_SESSION_TOKEN"])]

\* a caller runs EC2Client(region_name): resolved_aws_settings() first (a
\* malformed TOML file propagates), then the session
Construct ==
    /\ client.state = "none" /\ calls = 0
    /\ env' = ResolvedEnv
    /\ cfg' = ResolvedOutcome
    /\ calls' = calls + 1
    /\ \E region_name \in RegionArgs, sdk \in SdkCases :
         client' = IF ResolvedOutcome.raised # ""
                   THEN Failed(region_name, sdk, ResolvedOutcome.raised)
                   ELSE EC2Client_init(region_name, ResolvedOutcome.settings, sdk)
    /\ UNCHANGED <<dotenv, toml, tomlOk, haveDotenv, env0, edited, q, raw, info>>

-----------------------------------------------------------------------------
(* ec2/ec2.py: InstanceTypeInfo.from_aws *)

\* A raw provider dict: every field is <<>> when the key is missing and <<v>>
\* when it is there; dict.get(key, default) is Get.
Opt(S) == {<<>>} \cup {<<v>> : v \in S}

Get(field, default) == IF field = <<>> THEN default ELSE field[1]

IdStrings == {<<>>, <<"t">>, <<"t", ".", "m">>, <<".", "m">>, <<"a", ".", "b", ".", "c">>, <<"T", ".", "m">>}

RawRecords ==
    [InstanceType : Opt(IdStrings),
     VCpuInfo : Opt([DefaultVCpus : Opt({2})]),
     MemoryInfo : Opt([SizeInMiB : Opt({1024})]),
     ProcessorInfo : Opt([SupportedArchitectures : Opt({<<"arm64">>})]),
     NetworkInfo : Opt([NetworkPerformance : Opt({<<"H">>}),
                        EnaSupport : Opt({"required", "supported", "unsupported"})]),
     BurstablePerformanceSupported : Opt(BOOLEAN)]

\* the raw record with every key missing
NoRaw == CHOOSE d \in RawRecords : \A f \in DOMAIN d : d[f] = <<>>

\* "." in it
HasDot(it) == \E i \in 1..Len(it) : it[i] = "."

\* it.split(".")[0]
RECURSIVE SplitHead(_)
SplitHead(it) ==
    IF it = <<>> \/ Head(it) = "." THEN <<>> ELSE <<Head(it)>> \o SplitHead(Tail(it))

\* it.rsplit(".", 1)[0]: the part before the last "."
RECURSIVE RSplitHead(_)
RSplitHead(it) ==
    IF it = <<>> \/ it[Len(it)] = "." THEN SubSeq(it, 1, Len(it) - 1)
    ELSE RSplitHead(SubSeq(it, 1, Len(it) - 1))

\* from_aws with the family cut at the last "."
from_aws_LastDot(d) ==
    LET it == Get(d.InstanceType, <<>>)
        net == Get(d.NetworkInfo, [NetworkPerformance |-> <<>>, EnaSupport |-> <<>>])
    IN [instance_type |-> it,
        vcpu |-> Get(Get(d.VCpuInfo, [DefaultVCpus |-> <<>>]).DefaultVCpus, 0),
        memory_mib |-> Get(Get(d.MemoryInfo, [SizeInMiB |-> <<>>]).SizeInMiB, 0),
        family |-> IF HasDot(it) THEN RSplitHead(it) ELSE None,
        arch |-> Get(Get(d.ProcessorInfo,
                         [SupportedArchitectures |-> <<>>]).SupportedArchitectures, None),
        network_performance |-> Get(net.NetworkPerformance, None),
        supports_ena |-> net.EnaSupport \in {<<"required">>, <<"supported">>},
        burstable |-> Get(d.BurstablePerformanceSupported, FALSE)]

\* InstanceTypeInfo.from_aws
from_aws(d) ==
    LET it == Get(d.InstanceType, <<>>)
        net == Get(d.NetworkInfo, [NetworkPerformance |-> <<>>, EnaSupport |-> <<>>])
    IN [instance_type |-> it,
        vcpu |-> Get(Get(d.VCpuInfo, [DefaultVCpus |-> <<>>]).DefaultVCpus, 0),
        memory_mib |-> Get(Get(d.MemoryInfo, [SizeInMiB |-> <<>>]).SizeInMiB, 0),
        family |-> IF HasDot(it) THEN SplitHead(it) ELSE None,
        arch |-> Get(Get(d.ProcessorInfo,
                         [SupportedArchitectures |-> <<>>]).SupportedArchitectures, None),
        network_performance |-> Get(net.NetworkPerformance, None),
        supports_ena |-> net.EnaSupport \in {<<"required">>, <<"supported">>},
        burstable |-> Get(d.BurstablePerformanceSupported, FALSE)]

InitNorm ==
    /\ raw \in RawRecords
    /\ info = <<>>

\* a caller runs InstanceTypeInfo.from_aws(raw)
Normalize ==
    /\ info = <<>>
    /\ info' = <<from_aws(raw)>>
    /\ UNCHANGED <<cfgVars, client, q, raw>>

-----------------------------------------------------------------------------
(* ec2/ec2.py: EC2Client.list_machine_types *)

\* the raw records the provider answers with
Pool ==
    {[NoRaw EXCEPT !.InstanceType = <<(<<"t", ".", "m">>)>>,
                   !.BurstablePerformanceSupported = <<TRUE>>],
     [NoRaw EXCEPT !.InstanceType = <<(<<"T", ".", "m">>)>>,
                   !.BurstablePerformanceSupported = <<FALSE>>],
     [NoRaw EXCEPT !.InstanceType = <<(<<"x">>)>>]}

FamilyNames == {<<>>, <<"t">>}

\* the families argument: None, a collection that can be iterated again and
\* again (list, set, tuple), or a one-shot iterator (generator)
FamilyArgs ==
    {[kind |-> "none", items |-> {}]}
    \cup [kind : {"collection", "iterator"}, items : SUBSET FamilyNames]

ArchArgs == Opt({"arm64"})
BurstableArgs == Opt(BOOLEAN)
MaxResultsArgs == {-1, 1, 2, 1000}

\* bool(families)
FamiliesTruthy(families) ==
    \/ families.kind = "iterator"
    \/ families.kind = "collection" /\ families.items # {}

\* set(families), given what a one-shot iterator has left
FamiliesSet(families, left) ==
    IF families.kind = "iterator" THEN left ELSE families.items

\* the burstable tests of the loop body, with True and False exchanged
BurstableKeeps_Swapped(info_, burstable_only) ==
    /\ ~(burstable_only = <<FALSE>> /\ ~info_.burstable)
    /\ ~(burstable_only = <<TRUE>> /\ info_.burstable)

\* the burstable tests of the loop body: TRUE when the record is not skipped
BurstableKeeps(info_, burstable_only) ==
    /\ ~(burstable_only = <<TRUE>> /\ ~info_.burstable)
    /\ ~(burstable_only = <<FALSE>> /\ info_.burstable)

\* the inner loop over one page: the new out and what is left of the iterator
RECURSIVE ProcessPage(_, _, _, _, _)
ProcessPage(out, left, page, families, burstable_only) ==
    IF page = <<>> THEN [out |-> out, left |-> left]
    ELSE LET info_ == from_aws(Head(page))
             fam == IF Truthy(info_.family) THEN info_.family ELSE <<>>
             checked == FamiliesTruthy(families)
             left2 == IF checked /\ families.kind = "iterator" THEN {} ELSE left
             keep == /\ checked => fam \in FamiliesSet(families, left)
                     /\ BurstableKeeps(info_, burstable_only)
         IN ProcessPage(IF keep THEN Append(out, info_) ELSE out,
                        left2, Tail(page), families, burstable_only)

\* out[:k] with Python's meaning of a negative k
Slice(out, k) ==
    LET n == Len(out)
        stop == IF k >= 0 THEN (IF k < n THEN k ELSE n)
                ELSE (IF n + k > 0 THEN n + k ELSE 0)
    IN SubSeq(out, 1, stop)

\* failures a page request can end in
ClientErrorCodes ==
    {"AccessDenied", "UnauthorizedOperation", "Throttling", "RequestLimitExceeded",
     "ServiceUnavailable", "InvalidParameterValue", ""}

Failures ==
    {[type |-> "NoCredentialsError", code |-> ""],
     [type |-> "BotoCoreError", code |-> ""]}
    \cup [type : {"ClientError"}, code : ClientErrorCodes]

\* the except clauses with NoCredentialsError caught as a BotoCoreError
Classify_NoCredsLast(failure) ==
    IF failure.type = "ClientError"
    THEN IF failure.code \in {"AccessDenied", "UnauthorizedOperation"}
         THEN [type |-> "PermissionDenied", code |-> failure.code]
         ELSE IF failure.code \in {"Throttling", "RequestLimitExceeded", "ServiceUnavailable"}
         THEN [type |-> "ServiceUnavailable", code |-> failure.code]
         ELSE failure
    ELSE [type |-> "ServiceUnavailable", code |-> ""]

\* the except clauses of list_machine_types: what the caller sees raised
Classify(failure) ==
    IF failure.type = "NoCredentialsError"
    THEN [type |-> "CredentialsNotFound", code |-> ""]
    ELSE IF failure.type = "ClientError"
    THEN IF failure.code \in {"AccessDenied", "UnauthorizedOperation"}
         THEN [type |-> "PermissionDenied", code |-> failure.code]
         ELSE IF failure.code \in {"Throttling", "RequestLimitExceeded", "ServiceUnavailable"}
         THEN [type |-> "ServiceUnavailable", code |-> failure.code]
         ELSE failure
    ELSE [type |-> "ServiceUnavailable", code |-> ""]

NoFailure == [type |-> "", code |-> ""]

QIdle ==
    [pc |-> "idle", families |-> [kind |-> "none", items |-> {}], left |-> {},
     arch |-> <<>>, burstable_only |-> <<>>, max_results |-> 1000, filters |-> <<>>,
     out |-> <<>>, fetched |-> <<>>, requests |-> 0, pages |-> 0,
     result |-> <<>>, cause |-> NoFailure, error |-> NoFailure]

\* list_machine_types is called: the arguments, and the provider filters
Call ==
    /\ q.pc = "idle"
    /\ \E families \in FamilyArgs, arch \in ArchArgs,
          burstable_only \in BurstableArgs, max_results \in MaxResultsArgs :
         q' = [QIdle EXCEPT !.pc = "fetching", !.families = families,
                            !.left = families.items, !.arch = arch,
                            !.burstable_only = burstable_only,
                            !.max_results = max_results,
                            !.filters = IF arch # <<>>
                                        THEN <<[Name |-> "processor-info.supported-architecture",
                                                Values |-> arch]>>
                                        ELSE <<>>]
    /\ UNCHANGED <<cfgVars, client, raw, info>>

\* the paginator hands over one more page; after the last page the call returns
FetchPage ==
    /\ q.pc = "fetching" /\ q.requests < MaxPages
    /\ \E n \in 0..(MaxRecords - Len(q.fetched)) :
         \E page \in [1..n -> Pool], more \in BOOLEAN :
           /\ more => q.requests + 1 < MaxPages
           /\ LET done == ProcessPage(q.out, q.left, page, q.families, q.burstable_only)
                  seen == q.fetched \o [i \in 1..n |-> from_aws(page[i])]
              IN q' = [q EXCEPT !.out = done.out, !.left = done.left, !.fetched = seen,
                                !.requests = q.requests + 1, !.pages = q.pages + 1,
                                !.pc = IF more THEN "fetching" ELSE "returned",
                                !.result = IF more THEN <<>>
                                           ELSE Slice(done.out, q.max_results)]
    /\ UNCHANGED <<cfgVars, client, raw, info>>

\* a page request fails: the locals are gone, the caller sees an exception
FetchFail ==
    /\ q.pc = "fetching" /\ q.requests < MaxPages
    /\ \E failure \in Failures :
         q' = [q EXCEPT !.pc = "raised", !.out = <<>>, !.fetched = <<>>, !.left = {},
                        !.requests = q.requests + 1,
                        !.cause = failure, !.error = Classify(failure)]
    /\ UNCHANGED <<cfgVars, client, raw, info>>

-----------------------------------------------------------------------------
(* Specifications *)

InitCfgRest ==
    /\ env = Empty /\ dotenv = Empty /\ toml = <<>>
    /\ tomlOk = TRUE /\ haveDotenv = TRUE
    /\ env0 = Empty /\ cfg = NoCall /\ calls = 0 /\ edited = FALSE

InitRest ==
    /\ client = Idle
    /\ q = QIdle
    /\ raw = NoRaw
    /\ info = <<>>

\* settings resolution, called repeatedly while the .env file changes
NextConfig == Resolve \/ WriteDotenv \/ RemoveDotenv

InitConfigSpec == InitConfig /\ InitRest

SpecConfig == InitConfigSpec /\ [][NextConfig]_vars

\* construction of one EC2Client
NextClient == Construct

SpecClient == InitConfigSpec /\ [][NextClient]_vars

\* one list_machine_types call on a constructed client
NextList == Call \/ FetchPage \/ FetchFail

InitList == InitCfgRest /\ InitRest

SpecList == InitList /\ [][NextList]_vars

\* normalisation of one raw provider record
NextNorm == Normalize

InitNormSpec == InitCfgRest /\ client = Idle /\ q = QIdle /\ InitNorm

SpecNorm == InitNormSpec /\ [][NextNorm]_vars

-----------------------------------------------------------------------------
(* Settings resolution: claims *)

\* a variable counts as set when it is present and not blank
IsSet(e, name) == name \in DOMAIN e /\ Strip(e[name]) # <<>>

ResolveStep == calls' = calls + 1 /\ cfg'.raised = ""

\* C1: in every call of resolved_aws_settings that returns, each of the four
\* keys whose environment variable is set (present, not blank) at the time of
\* the call resolves to exactly that variable's value, whatever the .env file
\* and the TOML file hold for the key.
C1_EnvWins ==
    [][ResolveStep => \A k \in Keys : IsSet(env, k) => cfg'.settings[k] = env[k]]_vars

\* C1 witness: the second call returned the environment's value, trailing
\* blank included, for a key that the TOML file defines and that the .env
\* file has come to define between the calls.
C1_Witness ==
    /\ calls = 2 /\ edited /\ cfg.raised = "" /\ haveDotenv
    /\ \E k \in Keys :
         /\ DictGet(env0, k) = <<"e", " ">> /\ cfg.settings[k] = env0[k]
         /\ k \in DOMAIN dotenv /\ dotenv[k] = <<"d">>
         /\ DictGet(load_toml_config(toml), k) = <<"t">>

\* what C7 expects of a key whose environment variable is unset
C7_Expected(k) ==
    IF k \in DOMAIN dotenv THEN dotenv[k] ELSE DictGet(load_toml_config(toml), k)

\* C7 (as claimed): a key whose environment variable is absent or blank
\* resolves to the .env file's value when the file gives one, else to the TOML
\* value, else to None. Stated for the first call, with python-dotenv
\* installed, for a .env value that is not blank, and for the region only
\* when AWS_REGION is nowhere set: each restriction only narrows the claim.
C7_Claim ==
    (calls = 1 /\ ~edited /\ cfg.raised = "" /\ haveDotenv) =>
        \A k \in Keys :
            (/\ ~IsSet(env0, k)
             /\ (k \in DOMAIN dotenv => Strip(dotenv[k]) # <<>>)
             /\ (k = "AWS_DEFAULT_REGION" =>
                    "AWS_REGION" \notin DOMAIN env0 \cup DOMAIN dotenv))
            => cfg.settings[k] = C7_Expected(k)

\* C8 (as claimed): with AWS_REGION set in the process environment and
\* AWS_DEFAULT_REGION absent from it, the resolved region is the AWS_REGION
\* value, whatever the .env file and the TOML file give.
C8_Claim ==
    (/\ calls = 1 /\ cfg.raised = ""
     /\ IsSet(env0, "AWS_REGION") /\ "AWS_DEFAULT_REGION" \notin DOMAIN env0)
    => cfg.settings["AWS_DEFAULT_REGION"] = env0["AWS_REGION"]

\* C9 (as claimed): after any sequence of calls the process environment holds
\* exactly what it held before the first call.
C9_Claim == env = env0

\* C9 (amended): a call never changes or removes a variable the environment
\* already holds; it only adds variables, only with python-dotenv installed,
\* only names the .env file defines, with the file's value; and what was
\* added stays when the file is later changed or removed.
C9_EnvOnlyGrows ==
    /\ \A k \in DOMAIN env0 : k \in DOMAIN env /\ env[k] = env0[k]
    /\ DOMAIN env # DOMAIN env0 => haveDotenv /\ calls >= 1
    /\ \A k \in DOMAIN env \ DOMAIN env0 : env[k] \in DotVals
    /\ (~edited /\ calls >= 1 /\ haveDotenv) =>
          /\ DOMAIN env = DOMAIN env0 \cup DOMAIN dotenv
          /\ \A k \in DOMAIN dotenv \ DOMAIN env0 : env[k] = dotenv[k]

\* C9 witness: two calls with the .env file removed in between; the variable
\* the first call added is still set and still decides the second result.
C9_Witness ==
    /\ calls = 2 /\ edited /\ dotenv = Empty /\ cfg.raised = ""
    /\ "AWS_ACCESS_KEY_ID" \in DOMAIN env \ DOMAIN env0
    /\ cfg.settings["AWS_ACCESS_KEY_ID"] = <<"d">>

-----------------------------------------------------------------------------
(* Client construction: claims *)

CredKeys == {"AWS_ACCESS_KEY_ID", "AWS_SECRET_ACCESS_KEY", "AWS_SESSION_TOKEN"}

\* no source configures a credential and the SDK's default chain finds none
NoCredentialsAnywhere ==
    /\ \A k \in CredKeys :
         /\ ~IsSet(env0, k)
         /\ ~IsSet(dotenv, k)
         /\ ~Truthy(DictGet(load_toml_config(toml), k))
    /\ ~client.sdk.creds

Constructed == client.state # "none" /\ cfg.raised = ""

\* C6 (as claimed): with no credentials configured in any source and none
\* found by the SDK, constructing EC2Client fails with CredentialsNotFound.
\* Stated for a construction without region_name argument in which the SDK's
\* default chain finds no region either: this only narrows the claim.
C6_Claim ==
    (/\ Constructed /\ NoCredentialsAnywhere
     /\ client.region_name = None /\ client.sdk.region = None) =>
        client.state = "raised" /\ client.error = "CredentialsNotFound"

\* C6 (amended): with no credentials configured in any source and none found
\* by the SDK, constructing EC2Client fails, with CredentialsNotFound, exactly
\* when building the session throws or no region is resolved (no region_name
\* argument, no resolved AWS_DEFAULT_REGION setting, no SDK default region);
\* otherwise a client exists, bound to the first of these regions.
C6_FailsIffNoRegion ==
    (Constructed /\ NoCredentialsAnywhere) =>
        LET r1 == client.region_name
            r2 == cfg.settings["AWS_DEFAULT_REGION"]
            r3 == client.sdk.region
            noRegion == ~Truthy(r1) /\ ~Truthy(r2) /\ ~Truthy(r3)
        IN /\ client.state \in {"raised", "ready"}
           /\ client.state = "raised" <=> (client.sdk.throws \/ noRegion)
           /\ client.state = "raised" => client.error = "CredentialsNotFound"
           /\ client.state = "ready" =>
                client.region = IF Truthy(r1) THEN r1 ELSE IF Truthy(r2) THEN r2 ELSE r3

\* C6 witness: nothing but a region in the environment, no credentials
\* anywhere, and the client was constructed.
C6_Witness ==
    /\ Constructed /\ NoCredentialsAnywhere
    /\ client.state = "ready" /\ client.region_name = None /\ client.sdk.region = None
    /\ client.access_key = None /\ client.secret_key = None
    /\ client.region = <<"e">>

-----------------------------------------------------------------------------
(* Normalisation: claims *)

\* the position of the first "." of a string that has one
FirstDot(it) == CHOOSE i \in 1..Len(it) : it[i] = "." /\ \A j \in 1..(i - 1) : it[j] # "."

\* C10: from_aws returns a record for every raw record, whatever fields are
\* missing: the identifier defaults to "", vCPUs and memory to 0, burstable
\* to false, architectures and network performance are None when not
\* reported, supports_ena is true exactly for "required" and "supported", and
\* the family is the identifier up to its first "." when it has one, else None.
C10_Normalization ==
    info # <<>> =>
        LET r == info[1]
            has(f) == raw[f] # <<>>
        IN /\ r.instance_type = (IF has("InstanceType") THEN raw.InstanceType[1] ELSE <<>>)
           /\ r.vcpu = (IF has("VCpuInfo") /\ raw.VCpuInfo[1].DefaultVCpus # <<>>
                        THEN raw.VCpuInfo[1].DefaultVCpus[1] ELSE 0)
           /\ r.memory_mib = (IF has("MemoryInfo") /\ raw.MemoryInfo[1].SizeInMiB # <<>>
                              THEN raw.MemoryInfo[1].SizeInMiB[1] ELSE 0)
           /\ r.burstable = (has("BurstablePerformanceSupported")
                               /\ raw.BurstablePerformanceSupported[1])
           /\ r.arch = (IF has("ProcessorInfo")
                           /\ raw.ProcessorInfo[1].SupportedArchitectures # <<>>
                        THEN raw.ProcessorInfo[1].SupportedArchitectures[1] ELSE None)
           /\ r.network_performance =
                 (IF has("NetworkInfo") /\ raw.NetworkInfo[1].NetworkPerformance # <<>>
                  THEN raw.NetworkInfo[1].NetworkPerformance[1] ELSE None)
           /\ r.supports_ena =
                 (/\ has("NetworkInfo")
                  /\ \E v \in {"required", "supported"} : raw.NetworkInfo[1].EnaSupport = <<v>>)
           /\ r.family =
                 (IF \E i \in 1..Len(r.instance_type) : r.instance_type[i] = "."
                  THEN SubSeq(r.instance_type, 1, FirstDot(r.instance_type) - 1)
                  ELSE None)

\* C10 witness: a record with two dots and with the vCPU and memory fields
\* missing was normalised: family before the first dot, zeros as defaults.
C10_Witness ==
    /\ info # <<>>
    /\ raw.InstanceType = <<(<<"a", ".", "b", ".", "c">>)>>
    /\ raw.VCpuInfo = <<>> /\ raw.MemoryInfo = <<>>
    /\ info[1].family = <<"a">> /\ info[1].vcpu = 0 /\ info[1].memory_mib = 0

-----------------------------------------------------------------------------
(* list_machine_types: claims *)

\* C2: a failure of any page request is classified: ClientError with code
\* AccessDenied or UnauthorizedOperation raises PermissionDenied; with code
\* Throttling, RequestLimitExceeded or ServiceUnavailable raises
\* ServiceUnavailable; with any other code it propagates as it is;
\* NoCredentialsError raises CredentialsNotFound; any other BotoCoreError
\* raises ServiceUnavailable. The call then returns no record and the failed
\* request was the last one: one request more than the pages received.
C2_ErrorMapping ==
    q.pc = "raised" =>
        LET c == q.cause
            e == q.error
        IN /\ c \in Failures
           /\ (c.type = "ClientError" /\ c.code \in {"AccessDenied", "UnauthorizedOperation"})
                 => e.type = "PermissionDenied"
           /\ (c.type = "ClientError"
                 /\ c.code \in {"Throttling", "RequestLimitExceeded", "ServiceUnavailable"})
                 => e.type = "ServiceUnavailable"
           /\ (c.type = "ClientError"
                 /\ c.code \notin {"AccessDenied", "UnauthorizedOperation", "Throttling",
                                   "RequestLimitExceeded", "ServiceUnavailable"})
                 => e = c
           /\ c.type = "NoCredentialsError" => e.type = "CredentialsNotFound"
           /\ c.type = "BotoCoreError" => e.type = "ServiceUnavailable"
           /\ q.result = <<>>
           /\ q.requests = q.pages + 1

\* C2 witness: the second page request found no credentials, after a first
\* page with records had been received, and CredentialsNotFound was raised.
C2_Witness ==
    /\ q.pc = "raised" /\ q.pages = 1 /\ q.requests = 2
    /\ q.cause.type = "NoCredentialsError"
    /\ q.error.type = "CredentialsNotFound"

\* the burstable filter as the claims word it
BurstableWanted(r, burstable_only) ==
    \/ burstable_only = <<>>
    \/ burstable_only = <<TRUE>> /\ r.burstable = TRUE
    \/ burstable_only = <<FALSE>> /\ r.burstable = FALSE

\* C3 (as claimed): for every max_results the result has at most max_results
\* records and is the first min(max_results, n) records of F, the n fetched
\* records that pass every filter, in arrival order. Stated for calls without
\* families argument, and with "at most max_results" read as "none" for a
\* negative max_results: this only narrows the claim.
C3_Claim ==
    (q.pc = "returned" /\ q.families.kind = "none") =>
        LET Passes(r) == BurstableWanted(r, q.burstable_only)
            F == SelectSeq(q.fetched, Passes)
            k == q.max_results
        IN /\ Len(q.result) <= (IF k < 0 THEN 0 ELSE k)
           /\ q.result = SubSeq(F, 1, IF k < Len(F) THEN k ELSE Len(F))

\* C4 (as claimed): when families is given, every returned record has a
\* derived family equal to one of the given names, and every fetched record
\* with such a family that passes the burstable filter is in the result
\* before truncation. Stated for a families argument that is not empty and
\* does not hold the empty name: this only narrows the claim.
C4_Claim ==
    (/\ q.pc = "returned" /\ q.families.kind # "none"
     /\ q.families.items # {} /\ <<>> \notin q.families.items) =>
        /\ \A i \in 1..Len(q.result) : q.result[i].family \in q.families.items
        /\ \A i \in 1..Len(q.fetched) :
             (/\ q.fetched[i].family \in q.families.items
              /\ BurstableWanted(q.fetched[i], q.burstable_only))
             => \E j \in 1..Len(q.out) : q.out[j] = q.fetched[i]

\* C5: without families argument and without truncation, burstable_only=True
\* returns exactly the fetched records whose burstable flag is true,
\* burstable_only=False exactly those whose flag is false, and
\* burstable_only=None all of them, in arrival order.
C5_BurstableFilter ==
    (q.pc = "returned" /\ q.families.kind = "none" /\ q.max_results >= Len(q.fetched)) =>
        LET Passes(r) == BurstableWanted(r, q.burstable_only)
        IN q.result = SelectSeq(q.fetched, Passes)

\* C5 witness: three records of both kinds were fetched in two pages and
\* burstable_only=True returned the burstable one alone.
C5_Witness ==
    /\ q.pc = "returned" /\ q.families.kind = "none" /\ q.max_results = 1000
    /\ q.burstable_only = <<TRUE>> /\ q.pages = 2
    /\ Len(q.fetched) = 3 /\ Len(q.result) = 1
    /\ \E i \in 1..3 : ~q.fetched[i].burstable

====
